---- MODULE Spec2Model ----
(***************************************************************************)
(* WAMS: the Publishable mixin's publication scheduler on the node.js      *)
(* event loop (src/src/mixins/Publishable.js, lines 1-64) and the shared   *)
(* Message envelope (the same file, lines 68-196).                         *)
(***************************************************************************)
EXTENDS Integers, Sequences, FiniteSets, TLC

(***************************************************************************)
(* Bounds of the model.                                                    *)
(***************************************************************************)
\* inbound events one poll phase of the event loop handles before the
\* check phase (libuv stops at a system-dependent limit)
MaxEventsPerPoll == 2
\* calls (mutations and publish() calls) one inbound handler makes
MaxHandlerSteps == 2
\* an entity's data takes the values 0..MaxValue
MaxValue == 1
\* publish() calls one emitPublication() makes re-entrantly
MaxReentrant == 2
\* calls of channel.emit one run makes
MaxEmitCalls == 2

(***************************************************************************)
(* The entities that use the Publishable mixin.  "item" is a subclass that *)
(* implements emitPublication(); "bare" uses the mixin without             *)
(* implementing it and inherits the throwing emitPublication().            *)
(***************************************************************************)
Entities == {"item", "bare"}

None == "none"

Implements(e) == e # "bare"

VARIABLES
  \* the publication scheduler on the event loop
  phase,          \* event loop phase: "poll" (inbound events) or "check" (immediates)
  handling,       \* TRUE while an inbound event's synchronous handler is on the stack
  invoking,       \* the entity whose emitPublication() is on the stack, or None
  crashed,        \* the process ended on an uncaught exception
  scheduled,      \* this[symbols.scheduled], per entity
  immediateQueue, \* callbacks given to setImmediate, not yet taken by a check phase
  checkBatch,     \* callbacks the running check phase still has to call
  value,          \* the entity's own data (what a snapshot reports)
  emitted,        \* the snapshot the channel received per entity in this check phase, -1: none
  thrown,         \* the error raised in this check phase: None or "unimplemented"
  events,         \* inbound events handled in this poll phase
  steps,          \* calls made by the running handler
  reentrant,      \* publish() calls made by the running emitPublication()
  published,      \* history: publish() calls per entity made by handlers in this loop iteration
  emits,          \* history: emitPublication() calls per entity in this check phase
  schedBy,        \* history: where the pending emission was scheduled: None, "handler", "flush"
  valueAtPublish, \* history: the entity's data when its emission was scheduled
  last,           \* history: the call made by the last step, [op, ent]
  pubOrder,       \* history: the entities with a publish() not yet followed by their
                  \* emission, in the order of the first such publish() of each
  \* the Message envelope
  message,        \* the Message the last `new Message(type, reporter)` gave, or NoMessage
  msgError,       \* the error the last Message call raised: None or "TypeError"
  emitCalls,      \* calls of channel.emit so far
  emitArgs,       \* the arguments of the last channel.emit call, or NoArgs
  call,           \* history: the last Message call, [op, type, reporter]
  \* one IDStamper and the objects it stamps
  next_id,        \* the local next_id of the stamper's id_gen() generator
  objId,          \* per object: its own property named id, [has, value, writable, ...]
  stampRet,       \* what the last stamper call returned, Undefined when it threw
  stampErr,       \* the error the last call on an object raised: None or "TypeError"
  stampCall,      \* history: the last call, [op, obj, id, restamp]
  generated,      \* history: the values this[gen].next() gave to stamp(), in call order
  genReturns,     \* history: what the stamp() calls without id returned, in call order
  firstStamp,     \* history: per object, whether it was stamped and the id first stamped
  \* one instance of a class made by reporterClassFactory
  reporter,       \* the instance's own fields other than id, field name -> value
  reporterId,     \* the instance's own property named id
  repRet,         \* what the last report() returned, [fields, id]; NoSnapshot otherwise
  repErr,         \* the error the last call on the instance raised: None or "TypeError"
  repCall,        \* history: the last call on the instance, [op, data, id]
  \* initialize(defaults, data)
  initCall,       \* history: the arguments of the last call, [defaults, data]
  initAfter,      \* the two argument objects when the call has returned
  initResult,     \* the object the call returned
  \* the GestureControllers of the connections, their regions, the message handler
  regionEvents,   \* per region: the raw events given to its arbitrate(), in order
  arbitrating,    \* the controller whose process(event) is on the stack, or None
  fires,          \* callbacks the region has fired during this process() call
  handlerCalls,   \* calls made to the message handler during this process() call
  handlerCall,    \* the last call to the message handler, [fn, kind, group, data]
  fired,          \* history: the last callback a region fired, [region, gesture, data]
  \* the WorkSpace, its connections and its inbound events
  settings,       \* workspace.settings
  userSettings,   \* history: the settings argument the constructor was given
  viewers,        \* the sockets that have a live Viewer
  controllers,    \* the sockets that have a GestureController
  items,          \* the Items of the workspace
  running,        \* the event-processing loop is running
  wsCall,         \* history: the last operation, [op, socket]
  wsErr,          \* what the last operation raised: None, "CapacityExceeded", "TypeError"
  wsBefore,       \* history: the collections when the last event's Message was constructed
  inbound,        \* inbound events handled so far
  failures,       \* inbound events aborted so far
  \* one ServerWSObject (an item of the workspace)
  wsObject,       \* its fields: x, y, width, height, type
  objCall,        \* history: the last call on it, [op, args]
  objRet,         \* what the last containsPoint() returned
  objBefore,      \* history: its fields before the last call
  moves           \* move() and moveToXY() calls made on it since it was constructed

schedVars == <<phase, handling, invoking, crashed, scheduled, immediateQueue, checkBatch,
               value, emitted, thrown, events, steps, reentrant, published, emits,
               schedBy, valueAtPublish, last, pubOrder>>

msgVars == <<message, msgError, emitCalls, emitArgs, call>>

stampVars == <<next_id, objId, stampRet, stampErr, stampCall, generated, genReturns,
               firstStamp>>

repVars == <<reporter, reporterId, repRet, repErr, repCall>>

initVars == <<initCall, initAfter, initResult>>

gestVars == <<regionEvents, arbitrating, fires, handlerCalls, handlerCall, fired>>

wsVars == <<settings, userSettings, viewers, controllers, items, running, wsCall, wsErr,
            wsBefore, inbound, failures>>

objVars == <<wsObject, objCall, objRet, objBefore, moves>>

vars == <<schedVars, msgVars, stampVars, repVars, initVars, gestVars, wsVars, objVars>>

\* what an action of one component leaves alone
notSched == <<msgVars, stampVars, repVars, initVars, gestVars, wsVars, objVars>>

notMsg == <<schedVars, stampVars, repVars, initVars, gestVars, wsVars, objVars>>

notStamp == <<schedVars, msgVars, repVars, initVars, gestVars, wsVars, objVars>>

notRep == <<schedVars, msgVars, stampVars, initVars, gestVars, wsVars, objVars>>

notInit == <<schedVars, msgVars, stampVars, repVars, gestVars, wsVars, objVars>>

notRepNorStamp == <<schedVars, msgVars, initVars, gestVars, wsVars, objVars>>

notGest == <<schedVars, msgVars, stampVars, repVars, initVars, wsVars, objVars>>

notWs == <<schedVars, msgVars, stampVars, repVars, initVars, gestVars, objVars>>

notObj == <<schedVars, msgVars, stampVars, repVars, initVars, gestVars, wsVars>>

Op(o, e) == [op |-> o, ent |-> e]

RECURSIVE Count(_, _)
Count(q, e) ==
  IF q = <<>> THEN 0
  ELSE (IF Head(q) = e THEN 1 ELSE 0) + Count(Tail(q), e)

\* pending deferred emissions of e, wherever the event loop holds them
Pending(e) == Count(immediateQueue, e) + Count(checkBatch, e)

\* pubOrder after a publish() on e, and after the emission of e
Published(order, e) == IF Count(order, e) > 0 THEN order ELSE Append(order, e)

Emitted(order, e) == SelectSeq(order, LAMBDA x : x # e)

(***************************************************************************)
(* Message.TYPES: the enumerated message types, name -> wire string.       *)
(***************************************************************************)
TYPES ==
  [ ADD_ELEMENT |-> "wams-add-element",
    ADD_IMAGE   |-> "wams-add-image",
    ADD_ITEM    |-> "wams-add-item",
    ADD_SHADOW  |-> "wams-add-shadow",
    RM_ITEM     |-> "wams-remove-item",
    RM_SHADOW   |-> "wams-remove-shadow",
    UD_ITEM     |-> "wams-update-item",
    UD_SHADOW   |-> "wams-update-shadow",
    UD_VIEW     |-> "wams-update-view",
    RM_ATTRS    |-> "wams-remove-attributes",
    SET_ATTRS   |-> "wams-set-attributes",
    SET_IMAGE   |-> "wams-set-image",
    SET_RENDER  |-> "wams-set-render",
    INITIALIZE  |-> "wams-initialize",
    LAYOUT      |-> "wams-layout",
    FULL        |-> "wams-full",
    CLICK       |-> "wams-click",
    RESIZE      |-> "wams-resize",
    SWIPE       |-> "wams-swipe",
    TRACK       |-> "wams-track",
    TRANSFORM   |-> "wams-transform",
    POINTER     |-> "wams-pointer",
    BLUR        |-> "wams-blur",
    IMG_LOAD    |-> "wams-image-loaded" ]

TYPE_KEYS == DOMAIN TYPES

TYPE_VALUES == {TYPES[k] : k \in TYPE_KEYS}

\* Values given as a type that are not enumerated: message strings of the
\* older shared constants, the name of a type instead of its value, another
\* case, the empty string, and undefined (no argument).
InvalidTypes ==
  {"wams-drag", "wams-scale", "wams-disconnect", "wams-update-viewer",
   "wams-remove-viewer", "ADD_ITEM", "UD_VIEW", "WAMS-CLICK", "", "undefined"}

TypeInputs == TYPE_VALUES \cup InvalidTypes

\* What is given as a reporter: a Reporter instance holding x (it has
\* report()), a plain object holding x (no report()), or undefined.
ReporterInputs ==
  {[kind |-> k, x |-> v] : k \in {"reporter", "plain"}, v \in 0..MaxValue}
    \cup {[kind |-> "undefined", x |-> 0]}

HasReport(r) == r.kind = "reporter"

\* reporter.report(): a fresh plain object holding the reported fields.
Report(r) == [x |-> r.x]

(***************************************************************************)
(* Ids and the property named id of an object.                             *)
(***************************************************************************)
\* The value undefined, where an id is expected (ids are numbers).
Undefined == -1

\* The number from which x + 1 > x is false in the arithmetic of the
\* language (2^53 for a double); a small stand-in for it.
Ceiling == 3

\* The objects that are stamped.
Objs == {"obj", "danger"}

\* Ids given explicitly to stamp(), and values assigned to obj.id.
ExplicitIds == {1, 2}

\* the id argument of stamp(): an explicit id, or undefined (no argument)
IdInputs == ExplicitIds \cup {Undefined}

NoProp ==
  [has |-> FALSE, value |-> Undefined, writable |-> FALSE, configurable |-> FALSE,
   enumerable |-> FALSE]

\* a property made by an assignment, obj.id = v
PlainProp(v) ==
  [has |-> TRUE, value |-> v, writable |-> TRUE, configurable |-> TRUE,
   enumerable |-> TRUE]

\* the descriptor stamp() gives to Object.defineProperty
StampedProp(v) ==
  [has |-> TRUE, value |-> v, writable |-> FALSE, configurable |-> FALSE,
   enumerable |-> TRUE]

NotStamped == [done |-> FALSE, value |-> Undefined]

\* a call on object ob: restamp tells whether ob had been stamped before it
StampCall(o, ob, i, re) == [op |-> o, obj |-> ob, id |-> i, restamp |-> re]

(***************************************************************************)
(* Reporter classes: reporterClassFactory(_coreProperties).                *)
(***************************************************************************)
\* The value null, the default of every declared field.
Null == -2

\* The declared fields of the class: the first two of Viewer's and Item's.
CoreProperties == {"x", "y"}

\* The keys a data object can have: declared ones and one that is not.
DataKeys == CoreProperties \cup {"evil"}

\* The values a data object can hold under a key (undefined: the key is
\* there, with the value undefined).
FieldValues == {Undefined, 5, 7}

\* The objects given as data: any choice of keys, any values.
DataObjects == UNION {[K -> FieldValues] : K \in SUBSET DataKeys}

\* The defaults objects initialize() is given: fields with null or a value.
DefaultsObjects == UNION {[K -> {Null, 7}] : K \in SUBSET CoreProperties}

\* Payloads that carry an id key, alone or beside a declared field.
IdPayloads == {[id |-> 5], [x |-> 7, id |-> 2]}

\* defaults of the factory: every declared field, with the value null
Defaults == [p \in CoreProperties |-> Null]

\* data has an own property named k
HasOwnProperty(data, k) == k \in DOMAIN data

NoSnapshot == [fields |-> <<>>, id |-> NoProp]

RepCall(o, d, i) == [op |-> o, data |-> d, id |-> i]

(***************************************************************************)
(* GestureControllers: one per connection, each with its view group and    *)
(* its region; they share the message handler.                             *)
(***************************************************************************)
\* raw events a region is given
MaxRawEvents == 2

\* callbacks a region fires while it arbitrates one event
MaxFires == 2

Connections == {"A", "B"}

\* this.group of the controller of connection c
GroupOf(c) == [group |-> c]

\* The gestures begin() gives to the region.
GestureNames == {"pan", "tap", "pinch", "rotate", "swipe", "track"}

\* The payloads a region passes to a callback.
Payloads == {"data1", "data2"}

\* The kinds of raw event a client forwards.
RawEventTypes == {"pointerdown", "pointerup"}

\* A raw event forwarded from the client of connection c.
RawEvent(c, t) == [conn |-> c, type |-> t]

NoHandlerCall == [fn |-> None, kind |-> None, group |-> GroupOf(None), data |-> None]

NoFired == [region |-> None, gesture |-> None, data |-> None]

(***************************************************************************)
(* The WorkSpace: settings, connections, items, inbound events.            *)
(***************************************************************************)
\* inbound events the workspace is followed through
MaxInbound == 2

\* WorkSpace DEFAULTS
WorkSpaceDefaults ==
  [debug |-> FALSE, color |-> "#aaaaaa", bounds |-> [x |-> 10000, y |-> 10000],
   clientLimit |-> 10]

SettingKeys == DOMAIN WorkSpaceDefaults

\* The values a user supplies for the options.
CustomSettings ==
  [debug : {TRUE}, color : {"rgb(155,72, 84)"},
   bounds : {[x |-> 1080, y |-> 1920]}, clientLimit : {2, 7}]

\* The settings objects given to the constructor: any choice of the options;
\* none at all is new WorkSpace() or new WorkSpace(port).
SettingsInputs == {[k \in K |-> c[k]] : c \in CustomSettings, K \in SUBSET SettingKeys}

\* The sockets that try to connect.
Sockets == {"s1", "s2", "s3"}

\* The items an application puts in the workspace.
ItemIds == {"i1", "i2"}

\* The Message types the handler of an inbound event constructs.
EventTypes == {TYPES.UD_ITEM, "wams-drag"}

WsCall(o, s) == [op |-> o, socket |-> s]

Collections(its, vws) == [items |-> its, viewers |-> vws]

(***************************************************************************)
(* A ServerWSObject: position, extent, type.                               *)
(***************************************************************************)
\* move() and moveToXY() calls one object is followed through
MaxMoves == 2

\* ServerWSObject DEFAULTS (the fields the geometry reads, and type)
ObjectDefaults == [x |-> 0, y |-> 0, width |-> 128, height |-> 128, type |-> "view/background"]

\* The settings objects given to the constructor.
ObjectSettings ==
  {<<>>, [x |-> 50, y |-> 50, width |-> 100, height |-> 100], [y |-> 75, type |-> "joker"]}

\* The argument lists of move(dx, dy): none, dx alone, both.
MoveArguments == {<<>>, <<10>>, <<10, 20>>, <<-5, -8>>}

\* The argument lists of moveToXY(x, y): none, x alone, both; inside the
\* workspace, negative, and beyond its bounds.
MoveToArguments == {<<>>, <<1000>>, <<1000, 9999>>, <<-50, -1000>>, <<10001, 0>>}

\* The coordinates containsPoint() is asked about, for an extent from lo of
\* size len: one unit outside, the borders, inside, far outside.
Coordinates(lo, len) == {lo - 1, lo, lo + 1, lo + len - 1, lo + len, lo + len + 1, lo + 200}

ObjCall(o, a) == [op |-> o, args |-> a]

NoMessage == [type |-> None, reporter |-> [kind |-> "undefined", x |-> 0]]

NoArgs == [type |-> None, data |-> [x |-> 0]]

MsgCall(o, t, r) == [op |-> o, type |-> t, reporter |-> r]

Init ==
  /\ phase = "poll"
  /\ handling = FALSE
  /\ invoking = None
  /\ crashed = FALSE
  /\ scheduled = [e \in Entities |-> FALSE]
  /\ immediateQueue = <<>>
  /\ checkBatch = <<>>
  /\ value = [e \in Entities |-> 0]
  /\ emitted = [e \in Entities |-> -1]
  /\ thrown = None
  /\ events = 0
  /\ steps = 0
  /\ reentrant = 0
  /\ published = [e \in Entities |-> 0]
  /\ emits = [e \in Entities |-> 0]
  /\ schedBy = [e \in Entities |-> None]
  /\ valueAtPublish = [e \in Entities |-> 0]
  /\ last = Op("init", None)
  /\ pubOrder = <<>>
  /\ message = NoMessage
  /\ msgError = None
  /\ emitCalls = 0
  /\ emitArgs = NoArgs
  /\ call = MsgCall("init", None, NoMessage.reporter)
  /\ next_id = 0
  /\ objId = [o \in Objs |-> NoProp]
  /\ stampRet = Undefined
  /\ stampErr = None
  /\ stampCall = StampCall("init", None, Undefined, FALSE)
  /\ generated = <<>>
  /\ genReturns = <<>>
  /\ firstStamp = [o \in Objs |-> NotStamped]
  /\ reporter = Defaults
  /\ reporterId = NoProp
  /\ repRet = NoSnapshot
  /\ repErr = None
  /\ repCall = RepCall("new", <<>>, Undefined)
  /\ initCall = [defaults |-> <<>>, data |-> <<>>]
  /\ initAfter = [defaults |-> <<>>, data |-> <<>>]
  /\ initResult = <<>>
  /\ regionEvents = [c \in Connections |-> <<>>]
  /\ arbitrating = None
  /\ fires = 0
  /\ handlerCalls = 0
  /\ handlerCall = NoHandlerCall
  /\ fired = NoFired
  /\ settings = WorkSpaceDefaults
  /\ userSettings = <<>>
  /\ viewers = {}
  /\ controllers = {}
  /\ items = {}
  /\ running = TRUE
  /\ wsCall = WsCall("new", None)
  /\ wsErr = None
  /\ wsBefore = Collections({}, {})
  /\ inbound = 0
  /\ failures = 0
  /\ wsObject = ObjectDefaults
  /\ objCall = ObjCall("new", <<>>)
  /\ objRet = FALSE
  /\ objBefore = ObjectDefaults
  /\ moves = 0

(***************************************************************************)
(* Variants of publish() with a slip in it (used to test the properties).  *)
(***************************************************************************)
\* no test of the flag: every call hands a callback to setImmediate
PublishAlways(e, where) ==
  /\ scheduled' = [scheduled EXCEPT ![e] = TRUE]
  /\ immediateQueue' = Append(immediateQueue, e)
  /\ schedBy' = [schedBy EXCEPT ![e] = where]
  /\ valueAtPublish' = [valueAtPublish EXCEPT ![e] = value[e]]

\* a call on a scheduled entity moves its pending callback to the back
PublishRequeue(e, where) ==
  IF ~scheduled[e]
    THEN /\ scheduled' = [scheduled EXCEPT ![e] = TRUE]
         /\ immediateQueue' = Append(immediateQueue, e)
         /\ schedBy' = [schedBy EXCEPT ![e] = where]
         /\ valueAtPublish' = [valueAtPublish EXCEPT ![e] = value[e]]
    ELSE /\ immediateQueue' = Append(SelectSeq(immediateQueue, LAMBDA x : x # e), e)
         /\ UNCHANGED <<scheduled, schedBy, valueAtPublish>>

\* setImmediate is called and the flag is not set
PublishNoFlag(e, where) ==
  IF ~scheduled[e]
    THEN /\ immediateQueue' = Append(immediateQueue, e)
         /\ schedBy' = [schedBy EXCEPT ![e] = where]
         /\ valueAtPublish' = [valueAtPublish EXCEPT ![e] = value[e]]
         /\ UNCHANGED scheduled
    ELSE UNCHANGED <<scheduled, immediateQueue, schedBy, valueAtPublish>>

\* the callback is put at the front of the queue
PublishFront(e, where) ==
  IF ~scheduled[e]
    THEN /\ scheduled' = [scheduled EXCEPT ![e] = TRUE]
         /\ immediateQueue' = <<e>> \o immediateQueue
         /\ schedBy' = [schedBy EXCEPT ![e] = where]
         /\ valueAtPublish' = [valueAtPublish EXCEPT ![e] = value[e]]
    ELSE UNCHANGED <<scheduled, immediateQueue, schedBy, valueAtPublish>>

\* the flag is set and setImmediate is not called
PublishFlagOnly(e, where) ==
  IF ~scheduled[e]
    THEN /\ scheduled' = [scheduled EXCEPT ![e] = TRUE]
         /\ schedBy' = [schedBy EXCEPT ![e] = where]
         /\ valueAtPublish' = [valueAtPublish EXCEPT ![e] = value[e]]
         /\ UNCHANGED immediateQueue
    ELSE UNCHANGED <<scheduled, immediateQueue, schedBy, valueAtPublish>>

(***************************************************************************)
(* Publishable.publish(): if the entity is not scheduled, set the flag and *)
(* hand the bound [symbols.emit] to setImmediate.  `where` is the caller:  *)
(* "handler" or "flush".                                                   *)
(***************************************************************************)
Publish(e, where) ==
  IF ~scheduled[e]
    THEN /\ scheduled' = [scheduled EXCEPT ![e] = TRUE]
         /\ immediateQueue' = Append(immediateQueue, e)
         /\ schedBy' = [schedBy EXCEPT ![e] = where]
         /\ valueAtPublish' = [valueAtPublish EXCEPT ![e] = value[e]]
    ELSE UNCHANGED <<scheduled, immediateQueue, schedBy, valueAtPublish>>

\* The event loop's poll phase takes one inbound event and calls its handler.
HandleEvent ==
  /\ UNCHANGED <<notSched, pubOrder>>
  /\ ~crashed /\ phase = "poll" /\ ~handling
  /\ events < MaxEventsPerPoll
  /\ handling' = TRUE
  /\ events' = events + 1
  /\ steps' = 0
  /\ last' = Op("event", None)
  /\ UNCHANGED <<phase, invoking, crashed, reentrant, scheduled, immediateQueue,
                 checkBatch, value, emitted, thrown, published, emits, schedBy,
                 valueAtPublish>>

\* The handler writes a field of an entity (of one that reports its data).
HandlerMutate(e) ==
  /\ UNCHANGED <<notSched, pubOrder>>
  /\ ~crashed /\ handling /\ steps < MaxHandlerSteps
  /\ Implements(e)
  /\ \E v \in 0..MaxValue :
       /\ v # value[e]
       /\ value' = [value EXCEPT ![e] = v]
  /\ steps' = steps + 1
  /\ last' = Op("mutate", e)
  /\ UNCHANGED <<phase, handling, invoking, crashed, events, reentrant, scheduled,
                 immediateQueue, checkBatch, emitted, thrown, published, emits,
                 schedBy, valueAtPublish>>

\* The handler calls e.publish().
HandlerPublish(e) ==
  /\ UNCHANGED notSched
  /\ ~crashed /\ handling /\ steps < MaxHandlerSteps
  /\ Publish(e, "handler")
  /\ pubOrder' = Published(pubOrder, e)
  /\ published' = [published EXCEPT ![e] = @ + 1]
  /\ steps' = steps + 1
  /\ last' = Op("publish", e)
  /\ UNCHANGED <<phase, handling, invoking, crashed, events, reentrant, checkBatch,
                 value, emitted, thrown, emits>>

\* The handler returns to the event loop.
HandlerReturn ==
  /\ UNCHANGED <<notSched, pubOrder>>
  /\ ~crashed /\ handling
  /\ handling' = FALSE
  /\ last' = Op("return", None)
  /\ UNCHANGED <<phase, invoking, crashed, events, steps, reentrant, scheduled,
                 immediateQueue, checkBatch, value, emitted, thrown, published,
                 emits, schedBy, valueAtPublish>>

\* The poll phase ends; the check phase takes the immediates queued so far
\* (those queued while it runs wait for the next loop iteration).
CheckPhase ==
  /\ UNCHANGED <<notSched, pubOrder>>
  /\ ~crashed /\ phase = "poll" /\ ~handling
  /\ phase' = "check"
  /\ checkBatch' = immediateQueue
  /\ immediateQueue' = <<>>
  /\ last' = Op("check", None)
  /\ UNCHANGED <<handling, invoking, crashed, events, steps, reentrant, scheduled,
                 value, emitted, thrown, published, emits, schedBy, valueAtPublish>>

\* Variants of [symbols.emit]() with a slip in it.
\* the flag is not cleared before emitPublication() is called
SymbolsEmitKeepsFlag(e) ==
  /\ scheduled' = scheduled
  /\ invoking' = e

\* the flag is cleared and emitPublication() is not called
SymbolsEmitSkips(e) ==
  /\ scheduled' = [scheduled EXCEPT ![e] = FALSE]
  /\ invoking' = None

(***************************************************************************)
(* Publishable[symbols.emit](): the check phase calls the next immediate;  *)
(* it clears the flag and then calls this.emitPublication().               *)
(***************************************************************************)
SymbolsEmit(e) ==
  /\ scheduled' = [scheduled EXCEPT ![e] = FALSE]
  /\ invoking' = e

RunImmediate ==
  /\ UNCHANGED notSched
  /\ ~crashed /\ phase = "check" /\ invoking = None
  /\ checkBatch # <<>>
  /\ LET e == Head(checkBatch) IN
       /\ checkBatch' = Tail(checkBatch)
       /\ SymbolsEmit(e)
       /\ emits' = [emits EXCEPT ![e] = @ + 1]
       /\ schedBy' = [schedBy EXCEPT ![e] = None]
       /\ pubOrder' = Emitted(pubOrder, e)
       /\ last' = Op("emit", e)
  /\ reentrant' = 0
  /\ UNCHANGED <<phase, handling, crashed, events, steps, immediateQueue, value,
                 emitted, thrown, published, valueAtPublish>>

\* The running emitPublication() of a subclass calls x.publish().
ReentrantPublish(x) ==
  /\ UNCHANGED notSched
  /\ ~crashed /\ invoking # None /\ Implements(invoking)
  /\ reentrant < MaxReentrant
  /\ Publish(x, "flush")
  /\ pubOrder' = Published(pubOrder, x)
  /\ reentrant' = reentrant + 1
  /\ last' = Op("publish", x)
  /\ UNCHANGED <<phase, handling, invoking, crashed, events, steps, checkBatch,
                 value, emitted, thrown, published, emits>>

\* Variant: the callback is bound to a copy of the entity taken by publish().
BoundThisCopy(e) == valueAtPublish[e]

\* What the deferred callback reads: [symbols.emit] is bound to the entity
\* itself, so it reports the entity's data as it is when the callback runs.
BoundThis(e) == value[e]

\* A subclass's emitPublication() hands the entity's snapshot to the channel
\* and returns.
EmitPublicationReturn ==
  /\ UNCHANGED <<notSched, pubOrder>>
  /\ ~crashed /\ invoking # None /\ Implements(invoking)
  /\ emitted' = [emitted EXCEPT ![invoking] = BoundThis(invoking)]
  /\ invoking' = None
  /\ last' = Op("emitted", invoking)
  /\ UNCHANGED <<phase, handling, crashed, events, steps, reentrant, scheduled,
                 immediateQueue, checkBatch, value, thrown, published, emits,
                 schedBy, valueAtPublish>>

\* Variant: the inherited emitPublication() returns without a word.
EmitPublicationSilent ==
  /\ UNCHANGED <<notSched, pubOrder>>
  /\ ~crashed /\ invoking # None /\ ~Implements(invoking)
  /\ invoking' = None
  /\ last' = Op("throw", invoking)
  /\ UNCHANGED <<phase, handling, crashed, events, steps, reentrant, scheduled,
                 immediateQueue, checkBatch, value, emitted, thrown, published, emits,
                 schedBy, valueAtPublish>>

\* Variant: something catches the exception and the flush goes on.
EmitPublicationThrowCaught ==
  /\ UNCHANGED <<notSched, pubOrder>>
  /\ ~crashed /\ invoking # None /\ ~Implements(invoking)
  /\ thrown' = "unimplemented"
  /\ invoking' = None
  /\ last' = Op("throw", invoking)
  /\ UNCHANGED <<phase, handling, crashed, events, steps, reentrant, scheduled,
                 immediateQueue, checkBatch, value, emitted, published, emits,
                 schedBy, valueAtPublish>>

\* Publishable.emitPublication(), not overridden: throws.  Nothing catches
\* the exception ([symbols.emit] does not, and no 'uncaughtException' handler
\* is installed): it leaves the setImmediate callback and ends the process.
EmitPublicationThrow ==
  /\ UNCHANGED <<notSched, pubOrder>>
  /\ ~crashed /\ invoking # None /\ ~Implements(invoking)
  /\ thrown' = "unimplemented"
  /\ invoking' = None
  /\ crashed' = TRUE
  /\ last' = Op("throw", invoking)
  /\ UNCHANGED <<phase, handling, events, steps, reentrant, scheduled,
                 immediateQueue, checkBatch, value, emitted, published, emits,
                 schedBy, valueAtPublish>>

\* The check phase has called every immediate it took: next loop iteration.
NextIteration ==
  /\ UNCHANGED <<notSched, pubOrder>>
  /\ ~crashed /\ phase = "check" /\ invoking = None /\ checkBatch = <<>>
  /\ phase' = "poll"
  /\ events' = 0
  /\ steps' = 0
  /\ reentrant' = 0
  /\ published' = [e \in Entities |-> 0]
  /\ emits' = [e \in Entities |-> 0]
  /\ emitted' = [e \in Entities |-> -1]
  /\ thrown' = None
  /\ valueAtPublish' = [e \in Entities |-> IF scheduled[e] THEN valueAtPublish[e] ELSE 0]
  /\ last' = Op("next", None)
  /\ UNCHANGED <<handling, invoking, crashed, scheduled, immediateQueue, checkBatch,
                 value, schedBy>>

(***************************************************************************)
(* new Message(type, reporter): throws a TypeError unless the type is one  *)
(* of TYPE_VALUES; the reporter is stored as given.                        *)
(***************************************************************************)
\* Variant: the type is looked up among the names of TYPES, not its values.
ValidTypeByKey(t) == t \in TYPE_KEYS

ValidType(t) == t \in TYPE_VALUES

\* Variant: the constructor also refuses a reporter without report().
ConstructorChecksReporter(t, r) == t \in TYPE_VALUES /\ HasReport(r)

ConstructorAccepts(t, r) == ValidType(t)

NewMessage(t, r) ==
  /\ UNCHANGED notMsg
  /\ IF ConstructorAccepts(t, r)
       THEN /\ message' = [type |-> t, reporter |-> r]
            /\ msgError' = None
       ELSE /\ message' = NoMessage
            /\ msgError' = "TypeError"
  /\ call' = MsgCall("new", t, r)
  /\ UNCHANGED <<emitCalls, emitArgs>>

(***************************************************************************)
(* message.emitWith(emitter): emitter.emit(this.type,                      *)
(* this.reporter.report()).  The arguments are evaluated before the call:  *)
(* a reporter without report() raises a TypeError and emit is not called.  *)
(***************************************************************************)
\* Variant: the reporter itself is emitted, not its report().
EmitArgumentsRaw(m) == [type |-> m.type, data |-> m.reporter]

EmitArguments(m) == [type |-> m.type, data |-> Report(m.reporter)]

EmitWith ==
  /\ UNCHANGED notMsg
  /\ message # NoMessage
  /\ emitCalls < MaxEmitCalls
  /\ IF HasReport(message.reporter)
       THEN /\ emitArgs' = EmitArguments(message)
            /\ emitCalls' = emitCalls + 1
            /\ msgError' = None
       ELSE /\ msgError' = "TypeError"
            /\ UNCHANGED <<emitArgs, emitCalls>>
  /\ call' = MsgCall("emitWith", message.type, message.reporter)
  /\ UNCHANGED message

(***************************************************************************)
(* message.type = t, by any holder of the Message: the constructor makes   *)
(* type with a plain assignment (this.type = type), so it is a writable    *)
(* data property, the instance is not frozen, and the assignment succeeds  *)
(* in strict mode too.  Nothing validates the value written.               *)
(***************************************************************************)
\* Values written to type: an enumerated one, the string the older shared
\* constants had for a message, and the name of a type.
WriteInputs == {TYPES.CLICK, "wams-drag", "UD_VIEW"}

WriteType(t) ==
  /\ UNCHANGED notMsg
  /\ message # NoMessage
  /\ message' = [message EXCEPT !.type = t]
  /\ msgError' = None
  /\ call' = MsgCall("write", t, message.reporter)
  /\ UNCHANGED <<emitCalls, emitArgs>>

(***************************************************************************)
(* id_gen(): let next_id = 0; while (willNotOverflow(next_id)) yield       *)
(* ++next_id.  When the test fails the generator function returns: this    *)
(* and every later next() gives {value: undefined, done: true}.            *)
(***************************************************************************)
\* x + 1 as the language computes it: from Ceiling on, x + 1 rounds to x
PlusOne(x) == IF x >= Ceiling THEN x ELSE x + 1

willNotOverflow(x) == PlusOne(x) > x

\* this[gen].next().value
GenValue(n) == IF willNotOverflow(n) THEN PlusOne(n) ELSE Undefined

\* next_id after this[gen].next()
GenAfter(n) == IF willNotOverflow(n) THEN PlusOne(n) ELSE n

(***************************************************************************)
(* Object.defineProperty(obj, 'id', desc) on an extensible object: a new   *)
(* or a configurable property takes the descriptor; a non-configurable     *)
(* one accepts only a descriptor that changes nothing (a non-writable      *)
(* value only the same value), anything else raises a TypeError.           *)
(***************************************************************************)
\* Variant: every descriptor is accepted, the property is redefined.
DefineAcceptedAlways(cur, desc) == TRUE

DefineAccepted(cur, desc) ==
  \/ ~cur.has
  \/ cur.configurable
  \/ /\ ~desc.configurable
     /\ desc.enumerable = cur.enumerable
     /\ (cur.writable \/ (~desc.writable /\ desc.value = cur.value))

DefineProperty(cur, desc) == IF DefineAccepted(cur, desc) THEN desc ELSE cur

(***************************************************************************)
(* stamper.stamp(obj, id): the descriptor is built first, which takes the  *)
(* next value of the generator when id is undefined; then the property is  *)
(* defined, and obj.id is returned.                                        *)
(***************************************************************************)
\* Variant: an explicit id also takes a value from the generator.
NextIdAfterStampAlways(n, id) == GenAfter(n)

NextIdAfterStamp(n, id) == IF id = Undefined THEN GenAfter(n) ELSE n

\* the id stamp() puts in the descriptor
StampValue(n, id) == IF id = Undefined THEN GenValue(n) ELSE id

Stamp(o, id) ==
  /\ UNCHANGED notStamp
  /\ id = Undefined => Len(generated) < Ceiling + 2
  /\ LET desc == StampedProp(StampValue(next_id, id))
         ok   == DefineAccepted(objId[o], desc)
     IN /\ objId' = [objId EXCEPT ![o] = DefineProperty(@, desc)]
        /\ stampErr' = IF ok THEN None ELSE "TypeError"
        /\ stampRet' = IF ok THEN objId'[o].value ELSE Undefined
        /\ genReturns' = IF ok /\ id = Undefined
                           THEN Append(genReturns, objId'[o].value)
                           ELSE genReturns
        /\ firstStamp' = IF ok /\ ~firstStamp[o].done
                           THEN [firstStamp EXCEPT ![o] = [done |-> TRUE, value |-> desc.value]]
                           ELSE firstStamp
  /\ next_id' = NextIdAfterStamp(next_id, id)
  /\ generated' = IF id = Undefined THEN Append(generated, GenValue(next_id))
                                     ELSE generated
  /\ stampCall' = StampCall("stamp", o, id, firstStamp[o].done)

(***************************************************************************)
(* obj = {}: the holder makes a new object, with no property named id and  *)
(* never stamped, and lets go of the one it had.                           *)
(***************************************************************************)
NewObject(o) ==
  /\ UNCHANGED notStamp
  /\ objId' = [objId EXCEPT ![o] = NoProp]
  /\ firstStamp' = [firstStamp EXCEPT ![o] = NotStamped]
  /\ stampErr' = None
  /\ stampRet' = Undefined
  /\ stampCall' = StampCall("new", o, Undefined, FALSE)
  /\ UNCHANGED <<next_id, generated, genReturns>>

(***************************************************************************)
(* obj.id = v: a writable or a missing property takes the value; on a      *)
(* non-writable one nothing is written (silently, or with a TypeError      *)
(* when the assigning code is in strict mode).                             *)
(***************************************************************************)
SetId(o, v) ==
  /\ UNCHANGED notStamp
  /\ IF ~objId[o].has
       THEN /\ objId' = [objId EXCEPT ![o] = PlainProp(v)]
            /\ stampErr' = None
       ELSE IF objId[o].writable
         THEN /\ objId' = [objId EXCEPT ![o].value = v]
              /\ stampErr' = None
         ELSE /\ UNCHANGED objId
              /\ stampErr' \in {None, "TypeError"}
  /\ stampRet' = Undefined
  /\ stampCall' = StampCall("set", o, v, firstStamp[o].done)
  /\ UNCHANGED <<next_id, generated, genReturns, firstStamp>>

(***************************************************************************)
(* delete obj.id: a configurable property is removed; a non-configurable   *)
(* one stays (the result is false, or a TypeError in strict mode).         *)
(***************************************************************************)
DeleteId(o) ==
  /\ UNCHANGED notStamp
  /\ IF ~objId[o].has \/ objId[o].configurable
       THEN /\ objId' = [objId EXCEPT ![o] = NoProp]
            /\ stampErr' = None
       ELSE /\ UNCHANGED objId
            /\ stampErr' \in {None, "TypeError"}
  /\ stampRet' = Undefined
  /\ stampCall' = StampCall("delete", o, Undefined, firstStamp[o].done)
  /\ UNCHANGED <<next_id, generated, genReturns, firstStamp>>

(***************************************************************************)
(* initialize(defaults, data): a new object with the keys of defaults,     *)
(* each with data's value when data has the key as its own property and    *)
(* the default otherwise.  Both arguments are only read.                   *)
(***************************************************************************)
\* Variant: data is merged over defaults, every key of data included.
InitializeMerge(defaults, data) ==
  [k \in DOMAIN defaults \cup DOMAIN data |->
     IF HasOwnProperty(data, k) THEN data[k] ELSE defaults[k]]

\* Variant: data is used only when it has every key of defaults.
InitializeAllOrNothing(defaults, data) ==
  IF DOMAIN defaults \subseteq DOMAIN data THEN [k \in DOMAIN defaults |-> data[k]]
                                            ELSE defaults

Initialize(defaults, data) ==
  [k \in DOMAIN defaults |-> IF HasOwnProperty(data, k) THEN data[k] ELSE defaults[k]]

CallInitialize(defaults, data) ==
  /\ UNCHANGED notInit
  /\ initCall' = [defaults |-> defaults, data |-> data]
  /\ initResult' = Initialize(defaults, data)
  /\ initAfter' = [defaults |-> defaults, data |-> data]

(***************************************************************************)
(* assign(data): for every declared field p that data has as its own       *)
(* property, this[p] = data[p]; returns this.                              *)
(***************************************************************************)
\* Variant: every key of data is copied (as Object.assign does).
AssignsKeyAny(p, data) == HasOwnProperty(data, p)

AssignsKey(p, data) == p \in CoreProperties /\ HasOwnProperty(data, p)

\* Variant: a declared field that data lacks is set back to null.
FieldAfterAssignReset(fields, data, p) ==
  IF AssignsKey(p, data) THEN data[p] ELSE Null

FieldAfterAssign(fields, data, p) ==
  IF AssignsKey(p, data) THEN data[p] ELSE fields[p]

AssignedFields(fields, data) ==
  [p \in DOMAIN fields \cup {k \in DOMAIN data : AssignsKey(k, data)} |->
     FieldAfterAssign(fields, data, p)]

\* Variant: assign() copies every own property of data the instance can take.
IdAfterAssignCopies(idProp, data) ==
  IF HasOwnProperty(data, "id") /\ (~idProp.has \/ idProp.writable)
    THEN PlainProp(data["id"])
    ELSE idProp

\* The instance's id after assign(data): this.id = data.id is executed only
\* if id is a declared field, and takes effect unless id is read-only.
IdAfterAssign(idProp, data) ==
  IF AssignsKey("id", data) /\ (~idProp.has \/ idProp.writable)
    THEN PlainProp(data["id"])
    ELSE idProp

Assign(data) ==
  /\ UNCHANGED notRep
  /\ reporter' = AssignedFields(reporter, data)
  /\ reporterId' = IdAfterAssign(reporterId, data)
  /\ repRet' = NoSnapshot
  /\ repErr' = None
  /\ repCall' = RepCall("assign", data, Undefined)

\* assign({id: v}) on a stamped object, as far as its id goes: id is copied
\* only if it is a declared field, by an assignment (this.id = v).
AssignIdTo(o, v) ==
  /\ UNCHANGED notStamp
  /\ objId' = IF AssignsKey("id", [id |-> v]) /\ (~objId[o].has \/ objId[o].writable)
                THEN [objId EXCEPT ![o] = PlainProp(v)]
                ELSE objId
  /\ stampErr' = None
  /\ stampRet' = Undefined
  /\ stampCall' = StampCall("assign", o, v, firstStamp[o].done)
  /\ UNCHANGED <<next_id, generated, genReturns, firstStamp>>

(***************************************************************************)
(* new Reporter(data): this.assign(initialize(defaults, data)) on a new    *)
(* object; with no argument data is {}.                                    *)
(***************************************************************************)
NewReporter(data) ==
  /\ UNCHANGED notRep
  /\ reporter' = AssignedFields(<<>>, Initialize(Defaults, data))
  /\ reporterId' = IdAfterAssign(NoProp, Initialize(Defaults, data))
  /\ repRet' = NoSnapshot
  /\ repErr' = None
  /\ repCall' = RepCall("new", data, Undefined)

(***************************************************************************)
(* The class that extends the reporter stamps the instance with an id      *)
(* (stamp(this, id) of its stamper).                                       *)
(***************************************************************************)
StampReporter(id) ==
  /\ UNCHANGED notRep
  /\ reporterId' = DefineProperty(reporterId, StampedProp(id))
  /\ repErr' = IF DefineAccepted(reporterId, StampedProp(id)) THEN None ELSE "TypeError"
  /\ repRet' = NoSnapshot
  /\ repCall' = RepCall("stamp", <<>>, id)
  /\ UNCHANGED reporter

(***************************************************************************)
(* report(): a new object with every declared field and this's value of    *)
(* it; when this has an own property named id, the shared stamper stamps   *)
(* the new object with this.id.                                            *)
(***************************************************************************)
\* Variant: the snapshot is never stamped.
SnapshotIdNever(idProp) == NoProp

SnapshotId(idProp) ==
  IF idProp.has THEN StampedProp(StampValue(next_id, idProp.value)) ELSE NoProp

Snapshot(fields, idProp) ==
  [fields |-> [p \in CoreProperties |-> fields[p]], id |-> SnapshotId(idProp)]

ReporterReport ==
  /\ UNCHANGED notRepNorStamp
  /\ repRet' = Snapshot(reporter, reporterId)
  /\ repErr' = None
  /\ repCall' = RepCall("report", <<>>, Undefined)
  /\ UNCHANGED <<reporter, reporterId>>
  /\ next_id' = IF reporterId.has THEN NextIdAfterStamp(next_id, reporterId.value)
                                  ELSE next_id
  /\ generated' = IF reporterId.has /\ reporterId.value = Undefined
                    THEN Append(generated, GenValue(next_id))
                    ELSE generated
  /\ UNCHANGED <<objId, stampRet, stampErr, stampCall, genReturns, firstStamp>>

(***************************************************************************)
(* GestureController.constructor: this.region = new Gestures.Region(), a   *)
(* region of the controller's own; begin() gives it the gestures, each     *)
(* with its callback: this.handle(message) for the five classified         *)
(* gestures and a function calling messageHandler.track for track.         *)
(***************************************************************************)
\* Variant: the controllers share one region.
RegionShared(c) == "A"

\* the region of controller c
RegionOf(c) == c

\* Variant: the gesture's own name is the message.
MessageOfGestureName(g) == g

\* the message begin() gives to handle() for gesture g
MessageOf(g) ==
  CASE g = "pan"    -> "drag"
    [] g = "tap"    -> "click"
    [] g = "pinch"  -> "scale"
    [] g = "rotate" -> "rotate"
    [] g = "swipe"  -> "swipe"

\* the call the callback of gesture g of controller c makes, given data
Callback(c, g, data) ==
  IF g = "track"
    THEN [fn |-> "track", kind |-> None, group |-> GroupOf(c), data |-> data]
    ELSE [fn |-> "handle", kind |-> MessageOf(g), group |-> GroupOf(c), data |-> data]

(***************************************************************************)
(* process(event): this.region.arbitrate(event), nothing else.  While the  *)
(* region arbitrates it may fire callbacks it was given; then it returns.  *)
(***************************************************************************)
Process(c, t) ==
  /\ UNCHANGED notGest
  /\ arbitrating = None
  /\ Len(regionEvents[RegionOf(c)]) < MaxRawEvents
  /\ regionEvents' = [regionEvents EXCEPT ![RegionOf(c)] = Append(@, RawEvent(c, t))]
  /\ arbitrating' = c
  /\ fires' = 0
  /\ handlerCalls' = 0
  /\ UNCHANGED <<handlerCall, fired>>

\* The region of controller c, arbitrating, calls the callback it was given
\* for gesture g.
RegionFires(c, g, data) ==
  /\ UNCHANGED notGest
  /\ arbitrating = c
  /\ fires < MaxFires
  /\ fires' = fires + 1
  /\ handlerCall' = Callback(c, g, data)
  /\ handlerCalls' = handlerCalls + 1
  /\ fired' = [region |-> RegionOf(c), gesture |-> g, data |-> data]
  /\ UNCHANGED <<regionEvents, arbitrating>>

\* arbitrate() and process() return.
ProcessReturn ==
  /\ UNCHANGED notGest
  /\ arbitrating # None
  /\ arbitrating' = None
  /\ UNCHANGED <<regionEvents, fires, handlerCalls, handlerCall, fired>>

(***************************************************************************)
(* new WorkSpace(port, settings): this.settings has every option of        *)
(* DEFAULTS, with the user's value where the settings object has one.      *)
(***************************************************************************)
WorkSpaceSettings(user) == Initialize(WorkSpaceDefaults, user)

NewWorkSpace(user) ==
  /\ UNCHANGED notWs
  /\ settings' = WorkSpaceSettings(user)
  /\ userSettings' = user
  /\ viewers' = {}
  /\ controllers' = {}
  /\ items' = {}
  /\ running' = TRUE
  /\ wsCall' = WsCall("new", None)
  /\ wsErr' = None
  /\ wsBefore' = Collections({}, {})
  /\ inbound' = 0
  /\ failures' = 0

(***************************************************************************)
(* A socket connects: refused with a capacity error when clientLimit       *)
(* Viewers are live, before anything is constructed for it; otherwise one  *)
(* Viewer and one GestureController are made.  Both go on disconnect.      *)
(***************************************************************************)
\* Variant: the limit is compared after the Viewer has been added.
HasRoomAfterAdding(vws, limit) == Cardinality(vws) <= limit

HasRoom(vws, limit) == Cardinality(vws) < limit

Connect(s) ==
  /\ UNCHANGED notWs
  /\ running
  /\ s \notin viewers
  /\ IF HasRoom(viewers, settings.clientLimit)
       THEN /\ viewers' = viewers \cup {s}
            /\ controllers' = controllers \cup {s}
            /\ wsErr' = None
       ELSE /\ wsErr' = "CapacityExceeded"
            /\ UNCHANGED <<viewers, controllers>>
  /\ wsCall' = WsCall("connect", s)
  /\ UNCHANGED <<settings, userSettings, items, running, wsBefore, inbound, failures>>

Disconnect(s) ==
  /\ UNCHANGED notWs
  /\ running
  /\ s \in viewers
  /\ viewers' = viewers \ {s}
  /\ controllers' = controllers \ {s}
  /\ wsCall' = WsCall("disconnect", s)
  /\ wsErr' = None
  /\ UNCHANGED <<settings, userSettings, items, running, wsBefore, inbound, failures>>

(***************************************************************************)
(* One inbound event of a connected socket, handled to completion: the     *)
(* handler may add an item, then constructs a Message.  A TypeError of the *)
(* constructor ends the handling of this event and of nothing else.        *)
(***************************************************************************)
\* what the handler has made of the items when it constructs the Message
ItemsAfterHandler(its, i) == IF i = None THEN its ELSE its \cup {i}

\* Variant: the error rolls the handler's own changes back and drops the viewer.
AfterAbortDropsViewer(its, vws, s, i) == Collections(its, vws \ {s})

\* the collections after an aborted event: as the handler left them
AfterAbort(its, vws, s, i) == Collections(ItemsAfterHandler(its, i), vws)

InboundEvent(s, i, t) ==
  /\ UNCHANGED notWs
  /\ running
  /\ s \in viewers
  /\ inbound < MaxInbound
  /\ inbound' = inbound + 1
  /\ wsBefore' = Collections(ItemsAfterHandler(items, i), viewers)
  /\ IF ConstructorAccepts(t, [kind |-> "reporter", x |-> 0])
       THEN /\ items' = ItemsAfterHandler(items, i)
            /\ UNCHANGED viewers
            /\ wsErr' = None
            /\ UNCHANGED failures
       ELSE /\ items' = AfterAbort(items, viewers, s, i).items
            /\ viewers' = AfterAbort(items, viewers, s, i).viewers
            /\ wsErr' = "TypeError"
            /\ failures' = failures + 1
  /\ controllers' = viewers'
  /\ wsCall' = WsCall("event", s)
  /\ UNCHANGED <<settings, userSettings, running>>

(***************************************************************************)
(* new ServerWSObject(settings): the fields of DEFAULTS, with the values   *)
(* of settings where it has them.                                          *)
(***************************************************************************)
NewServerWSObject(data) ==
  /\ UNCHANGED notObj
  /\ wsObject' = Initialize(ObjectDefaults, data)
  /\ objCall' = ObjCall("new", <<>>)
  /\ objRet' = FALSE
  /\ objBefore' = wsObject
  /\ moves' = 0

(***************************************************************************)
(* containsPoint(x, y): the point is within the object's extent, borders   *)
(* included.                                                               *)
(***************************************************************************)
\* Variant: the borders are outside.
ContainsPointOpen(o, px, py) ==
  /\ o.x < px /\ px < o.x + o.width
  /\ o.y < py /\ py < o.y + o.height

ContainsPoint(o, px, py) ==
  /\ o.x <= px /\ px <= o.x + o.width
  /\ o.y <= py /\ py <= o.y + o.height

CallContainsPoint(px, py) ==
  /\ UNCHANGED notObj
  /\ objRet' = ContainsPoint(wsObject, px, py)
  /\ objCall' = ObjCall("containsPoint", <<px, py>>)
  /\ objBefore' = wsObject
  /\ UNCHANGED <<wsObject, moves>>

(***************************************************************************)
(* move(dx, dy): adds the deltas to the position; nothing happens when one *)
(* of them is left out.                                                    *)
(***************************************************************************)
\* Variant: a delta that is left out counts as 0.
MovedByDefaultZero(o, args) ==
  [o EXCEPT !.x = @ + (IF Len(args) >= 1 THEN args[1] ELSE 0),
            !.y = @ + (IF Len(args) >= 2 THEN args[2] ELSE 0)]

MovedBy(o, args) ==
  IF Len(args) < 2 THEN o ELSE [o EXCEPT !.x = @ + args[1], !.y = @ + args[2]]

Move(args) ==
  /\ UNCHANGED notObj
  /\ moves < MaxMoves
  /\ moves' = moves + 1
  /\ wsObject' = MovedBy(wsObject, args)
  /\ objCall' = ObjCall("move", args)
  /\ objBefore' = wsObject
  /\ UNCHANGED objRet

(***************************************************************************)
(* moveToXY(x, y): assigns the position as given; nothing happens when one *)
(* of the coordinates is left out.                                         *)
(***************************************************************************)
\* Variant: the position is kept within the bounds of the workspace.
MovedToClamped(o, args) ==
  LET clamp(v, hi) == IF v < 0 THEN 0 ELSE IF v > hi THEN hi ELSE v
  IN  IF Len(args) < 2 THEN o
      ELSE [o EXCEPT !.x = clamp(args[1], WorkSpaceDefaults.bounds.x),
                     !.y = clamp(args[2], WorkSpaceDefaults.bounds.y)]

MovedTo(o, args) ==
  IF Len(args) < 2 THEN o ELSE [o EXCEPT !.x = args[1], !.y = args[2]]

MoveToXY(args) ==
  /\ UNCHANGED notObj
  /\ moves < MaxMoves
  /\ moves' = moves + 1
  /\ wsObject' = MovedTo(wsObject, args)
  /\ objCall' = ObjCall("moveToXY", args)
  /\ objBefore' = wsObject
  /\ UNCHANGED objRet

Next ==
  \/ HandleEvent
  \/ \E e \in Entities : HandlerMutate(e)
  \/ \E e \in Entities : HandlerPublish(e)
  \/ HandlerReturn
  \/ CheckPhase
  \/ RunImmediate
  \/ \E x \in Entities : ReentrantPublish(x)
  \/ EmitPublicationReturn
  \/ EmitPublicationThrow
  \/ NextIteration

\* The publication scheduler on the event loop.
Spec == Init /\ [][Next]_vars

\* The event loop goes on: a handler returns, the poll phase ends, the check
\* phase calls every immediate it took, and a called function returns or throws.
Fairness ==
  /\ WF_vars(HandlerReturn)
  /\ WF_vars(CheckPhase)
  /\ WF_vars(RunImmediate)
  /\ WF_vars(EmitPublicationReturn)
  /\ WF_vars(EmitPublicationThrow)
  /\ WF_vars(NextIteration)

FairSpec == Init /\ [][Next]_vars /\ Fairness

NextMessage ==
  \/ \E t \in TypeInputs, r \in ReporterInputs : NewMessage(t, r)
  \/ EmitWith
  \/ \E t \in WriteInputs : WriteType(t)

\* Message constructions and emissions.
SpecMessage == Init /\ [][NextMessage]_vars

NextStamper ==
  \/ \E o \in Objs : NewObject(o)
  \/ \E o \in Objs, id \in IdInputs : Stamp(o, id)
  \/ \E o \in Objs, v \in ExplicitIds : SetId(o, v)
  \/ \E o \in Objs : DeleteId(o)
  \/ \E o \in Objs, v \in ExplicitIds : AssignIdTo(o, v)

\* One IDStamper, the objects it stamps, and what their holders do to id.
SpecStamper == Init /\ [][NextStamper]_vars

NextReporter ==
  \/ \E data \in DataObjects : NewReporter(data)
  \/ \E data \in DataObjects \cup IdPayloads : Assign(data)
  \/ \E id \in ExplicitIds : StampReporter(id)
  \/ ReporterReport

\* One reporter instance: construction, assign(), stamping, report().
SpecReporter == Init /\ [][NextReporter]_vars

NextInitialize ==
  \E defaults \in DefaultsObjects, data \in DataObjects : CallInitialize(defaults, data)

\* Calls of initialize(defaults, data).
SpecInitialize == Init /\ [][NextInitialize]_vars

NextGesture ==
  \/ \E c \in Connections, t \in RawEventTypes : Process(c, t)
  \/ \E c \in Connections, g \in GestureNames, data \in Payloads : RegionFires(c, g, data)
  \/ ProcessReturn

\* The GestureControllers of two connections.
SpecGesture == Init /\ [][NextGesture]_vars

NextObject ==
  \/ \E data \in ObjectSettings : NewServerWSObject(data)
  \/ \E px \in Coordinates(wsObject.x, wsObject.width),
        py \in Coordinates(wsObject.y, wsObject.height) : CallContainsPoint(px, py)
  \/ \E args \in MoveArguments : Move(args)
  \/ \E args \in MoveToArguments : MoveToXY(args)

\* One ServerWSObject: construction, containsPoint(), move(), moveToXY().
SpecObject == Init /\ [][NextObject]_vars

NextWorkSpace ==
  \/ \E user \in SettingsInputs : NewWorkSpace(user)
  \/ \E s \in Sockets : Connect(s)
  \/ \E s \in Sockets : Disconnect(s)
  \/ \E s \in Sockets, i \in ItemIds \cup {None}, t \in EventTypes : InboundEvent(s, i, t)

\* One WorkSpace: construction, connections, inbound events.
SpecWorkSpace == Init /\ [][NextWorkSpace]_vars

(***************************************************************************)
(* Properties of the publication scheduler (Spec, FairSpec).               *)
(***************************************************************************)
\* the check phase has called every immediate it took
FlushDone == phase = "check" /\ checkBatch = <<>> /\ invoking = None

\* C1: an entity on which handlers called publish() more than once in a
\* turn has had exactly one emitPublication() call when the turn's flush is
\* done.
C1_OneEmissionPerTurn ==
  FlushDone => \A e \in Entities : published[e] > 1 => emits[e] = 1

C1_Witness ==
  FlushDone /\ \E e \in Entities : published[e] > 1 /\ emits[e] = 1

\* C2: when the deferred callback has called emitPublication() the flag is
\* already cleared; a publish() made inside the entity's own
\* emitPublication() sets the flag again and leaves exactly one pending
\* emission of it, queued for a later check phase and not run in this one.
C2_ReentrantPublishSchedulesAnew ==
  /\ (last.op = "emit" => (invoking = last.ent /\ ~scheduled[last.ent]))
  /\ ((last.op = "publish" /\ invoking # None /\ last.ent = invoking)
        => /\ scheduled[invoking]
           /\ Count(immediateQueue, invoking) = 1
           /\ Count(checkBatch, invoking) = 0
           /\ schedBy[invoking] = "flush")
  /\ \A e \in Entities : emits[e] <= 1

C2_Witness ==
  /\ last.op = "publish" /\ invoking # None /\ last.ent = invoking
  /\ reentrant > 1
  /\ Count(immediateQueue, invoking) = 1

\* C3 as stated: when the handler of the next inbound event starts, no
\* emission scheduled by an earlier event's handler is still pending.
C3_Original ==
  last.op = "event" => \A e \in Entities : schedBy[e] # "handler"

\* C3, amended: an emission never runs while a handler is on the stack, and
\* every emission scheduled by a handler has run when the loop iteration
\* ends, that is before the next poll phase (not before the next event of
\* the same poll phase).
C3_FlushBeforeNextPollPhase ==
  /\ (invoking # None => (~handling /\ phase = "check"))
  /\ (handling => phase = "poll")
  /\ (last.op = "next" => \A e \in Entities : schedBy[e] # "handler")

C3_Witness ==
  /\ last.op = "emit" /\ events > 1
  /\ published[last.ent] > 0

\* C4: a publish() on an entity whose flag is set changes neither the flags
\* nor the queued callbacks nor their order.
C4_PublishOnScheduledIsNoOp ==
  [][\A e \in Entities :
       (last'.op = "publish" /\ last'.ent = e /\ scheduled[e])
         => UNCHANGED <<scheduled, immediateQueue, checkBatch>>]_vars

C4_Witness ==
  \E e \in Entities :
    /\ last = Op("publish", e) /\ published[e] > 1
    /\ scheduled[e] /\ Pending(e) = 1
    /\ Len(immediateQueue) > 1 /\ Head(immediateQueue) = e

C6_EmitsLatestState ==
  last.op = "emitted" => emitted[last.ent] = value[last.ent]

C6_Witness ==
  /\ last.op = "emitted"
  /\ published[last.ent] > 0
  /\ valueAtPublish[last.ent] # value[last.ent]
  /\ emitted[last.ent] = value[last.ent]

\* C7: for an entity without emitPublication(), publish() returns normally
\* and schedules the emission; the error is raised only in the check phase,
\* by the inherited emitPublication(); and once the flush has called the
\* entity's emission the error has been raised (it was not dropped).
C7_UnimplementedFailsAtFlush ==
  /\ (phase = "poll" => thrown = None)
  /\ ((last.op = "publish" /\ invoking = None)
        => (scheduled[last.ent] /\ Pending(last.ent) = 1 /\ thrown = None))
  /\ (thrown = "unimplemented"
        => (phase = "check" /\ ~handling /\ last.op = "throw" /\ ~Implements(last.ent)))
  /\ \A e \in Entities :
       (~Implements(e) /\ emits[e] > 0 /\ invoking # e) => thrown = "unimplemented"

C7_Witness ==
  \E e \in Entities :
    /\ last = Op("throw", e) /\ ~Implements(e)
    /\ published[e] > 0 /\ thrown = "unimplemented"

(***************************************************************************)
(* Properties of the Message envelope (SpecMessage).                       *)
(***************************************************************************)
\* C8: new Message(s, r) with s not an enumerated type string raises a
\* TypeError and gives no Message, whatever r is; no Message is constructed
\* with such a type.
C8_InvalidTypeNeverConstructs ==
  /\ ((call.op = "new" /\ call.type \notin TYPE_VALUES)
        => (message = NoMessage /\ msgError = "TypeError"))
  /\ ((call.op = "new" /\ message # NoMessage) => message.type \in TYPE_VALUES)

C8_Witness ==
  /\ call.op = "new" /\ call.type = "wams-drag" /\ call.reporter.kind = "reporter"
  /\ message = NoMessage /\ msgError = "TypeError"

\* C9: new Message(k, r) with k enumerated gives a Message of type k holding
\* r, and one emitWith(channel) on a Message whose reporter has report()
\* makes exactly one channel.emit call, with k and the reporter's snapshot.
C9_ValidTypeEmitsOnce ==
  /\ []((call.op = "new" /\ call.type \in TYPE_VALUES)
          => (/\ message = [type |-> call.type, reporter |-> call.reporter]
              /\ msgError = None))
  /\ [][(call'.op = "emitWith" /\ message.reporter.kind = "reporter")
          => /\ emitCalls' = emitCalls + 1
             /\ emitArgs' = [type |-> message.type,
                             data |-> [x |-> message.reporter.x]]
             /\ msgError' = None
             /\ message' = message]_vars

C9_Witness ==
  /\ call.op = "emitWith" /\ emitCalls = 1 /\ msgError = None
  /\ emitArgs = [type |-> "wams-update-item", data |-> [x |-> 1]]

\* C10: a Message with an enumerated type and a reporter without report()
\* is constructed without error; emitWith() on it raises the TypeError and
\* makes no channel.emit call; with an enumerated type no other call fails.
C10_MissingReportFailsAtEmit ==
  /\ []((call.op = "new" /\ call.type \in TYPE_VALUES /\ call.reporter.kind # "reporter")
          => (/\ message # NoMessage
              /\ message.reporter = call.reporter
              /\ msgError = None))
  /\ [][(call'.op = "emitWith" /\ message.reporter.kind # "reporter")
          => /\ msgError' = "TypeError"
             /\ UNCHANGED <<emitCalls, emitArgs, message>>]_vars
  /\ []((msgError = "TypeError" /\ call.type \in TYPE_VALUES) => call.op = "emitWith")

C10_Witness ==
  /\ call.op = "emitWith" /\ call.reporter.kind = "plain"
  /\ msgError = "TypeError" /\ emitCalls = 0 /\ emitArgs = NoArgs

\* C11: every existing Message has an enumerated type, whatever was done to
\* it after construction (a write to its type field included), and no
\* emitWith() has called channel.emit with a type that is not enumerated.
C11_TypeAlwaysEnumerated ==
  /\ (message # NoMessage => message.type \in TYPE_VALUES)
  /\ (emitCalls > 0 => emitArgs.type \in TYPE_VALUES)

\* a Message constructed with an enumerated type was written to and emitted
\* under a type that is not enumerated
C11_Witness ==
  /\ call.op = "emitWith" /\ msgError = None /\ emitCalls > 0
  /\ message.type = "wams-drag" /\ emitArgs.type = "wams-drag"

(***************************************************************************)
(* Properties of the IDStamper (SpecStamper).                              *)
(***************************************************************************)
\* C12: the values returned by the stamp() calls without an explicit id
\* are strictly increasing in call order (so no two are the same), and the
\* first of them is greater than zero.
C12_GeneratedIdsIncrease ==
  /\ (genReturns # <<>> => genReturns[1] > 0)
  /\ \A i, j \in DOMAIN genReturns : i < j => genReturns[i] < genReturns[j]

\* no stamp() call has raised an error (each one has returned the value it
\* took from the generator), and the last two have returned undefined
C12_Witness ==
  /\ Len(generated) = Ceiling + 2 /\ genReturns = generated
  /\ genReturns[Len(genReturns)] = Undefined
  /\ genReturns[Len(genReturns) - 1] = Undefined

\* C13: an object that has been stamped keeps the id first stamped, as a
\* non-writable, non-configurable, enumerable property, whatever is done
\* to it afterwards (obj.id = v, delete obj.id, assign({id: v}), another
\* stamp()).
C13_StampedIdIsPermanent ==
  \A o \in Objs :
    firstStamp[o].done =>
      /\ objId[o].has /\ objId[o].value = firstStamp[o].value
      /\ ~objId[o].writable /\ ~objId[o].configurable /\ objId[o].enumerable

\* obj.id = 2 was done on an object stamped with 1, which still has id 1
C13_Witness ==
  /\ stampCall = StampCall("set", "obj", 2, TRUE)
  /\ firstStamp["obj"] = [done |-> TRUE, value |-> 1]
  /\ objId["obj"] = StampedProp(1)

\* C14: stamp() on an object that is already stamped raises no error and
\* leaves the object's id as it was, with or without an explicit id, equal
\* to the object's id or not.
C14_RestampDoesNotThrow ==
  (stampCall.op = "stamp" /\ stampCall.restamp) =>
    /\ stampErr = None
    /\ objId[stampCall.obj].value = firstStamp[stampCall.obj].value

\* a second stamp() with a different id raised a TypeError
C14_Witness ==
  /\ stampCall.op = "stamp" /\ stampCall.restamp /\ stampErr = "TypeError"
  /\ objId[stampCall.obj].value = firstStamp[stampCall.obj].value

\* C15: stamp(obj, id) with an explicit id leaves the generator where it
\* was and, on an object not stamped before, attaches and returns exactly
\* id; the values the generator gives to stamp() depend only on their
\* position among the generated ones, not on the explicit stamps between.
C15_ExplicitIdTakesNoCounterSlot ==
  /\ [][(stampCall'.op = "stamp" /\ stampCall'.id # Undefined)
          => /\ next_id' = next_id
             /\ generated' = generated
             /\ (~stampCall'.restamp
                   => /\ objId'[stampCall'.obj] = StampedProp(stampCall'.id)
                      /\ stampRet' = stampCall'.id /\ stampErr' = None)]_vars
  /\ [](\A i \in DOMAIN generated :
          generated[i] = IF i <= Ceiling THEN i ELSE Undefined)

\* an explicit stamp made after one generated stamp: the counter stays at 1
C15_Witness ==
  /\ stampCall = StampCall("stamp", "danger", 2, FALSE)
  /\ stampRet = 2 /\ objId["danger"] = StampedProp(2)
  /\ objId["obj"] = StampedProp(1) /\ next_id = 1 /\ generated = <<1>>

\* C16: a stamp() without an explicit id made when the generator is
\* exhausted raises an error; no stamped id is undefined, and no generated
\* id is returned twice.
C16_ExhaustionIsAnError ==
  /\ (/\ stampCall.op = "stamp" /\ stampCall.id = Undefined
      /\ generated # <<>> /\ generated[Len(generated)] = Undefined)
       => stampErr # None
  /\ \A o \in Objs : firstStamp[o].done => objId[o].value # Undefined
  /\ \A i, j \in DOMAIN genReturns : i # j => genReturns[i] # genReturns[j]

\* no stamp() call has raised an error, the generator is exhausted, and
\* stamp(obj) has returned without error leaving obj with the id undefined
C16_Witness ==
  /\ Len(generated) = Ceiling + 1 /\ genReturns = generated
  /\ next_id = Ceiling /\ stampCall.op = "stamp" /\ stampCall.id = Undefined
  /\ ~stampCall.restamp /\ stampErr = None /\ stampRet = Undefined
  /\ objId[stampCall.obj] = StampedProp(Undefined)

(***************************************************************************)
(* Properties of the reporter classes (SpecReporter) and of initialize()   *)
(* (SpecInitialize).                                                       *)
(***************************************************************************)
\* C17: a reporter instance has no field that is not declared, after
\* construction and after every assign(data); an assign(data) call creates
\* or changes a field only if the field is declared and data has it, and
\* then to data's value.
C17_OnlyDeclaredFields ==
  /\ [](DOMAIN reporter \subseteq CoreProperties)
  /\ [][repCall'.op = "assign"
          => \A k \in DOMAIN reporter' \cup DataKeys :
               (/\ k \in DOMAIN reporter'
                /\ (k \notin DOMAIN reporter \/ reporter'[k] # reporter[k]))
                 => /\ k \in CoreProperties
                    /\ k \in DOMAIN repCall'.data
                    /\ reporter'[k] = repCall'.data[k]]_vars

\* assign({x: 5, evil: 7}) has been called: x is 5 and there is no evil
C17_Witness ==
  /\ repCall.op = "assign" /\ repCall.data = [x |-> 5, evil |-> 7]
  /\ reporter = [x |-> 5, y |-> Null]

\* C18: what report() returns has exactly the declared fields, each with
\* the instance's value of it, and has an id exactly when the instance has
\* one, the same id, stamped.
C18_ReportIsTheDeclaredSnapshot ==
  repCall.op = "report" =>
    /\ DOMAIN repRet.fields = CoreProperties
    /\ \A p \in CoreProperties : repRet.fields[p] = reporter[p]
    /\ repRet.id.has <=> reporterId.has
    /\ reporterId.has => repRet.id = StampedProp(reporterId.value)

\* report() on an instance stamped with 2 whose x was assigned 5
C18_Witness ==
  /\ repCall.op = "report" /\ reporterId = StampedProp(2)
  /\ repRet = [fields |-> [x |-> 5, y |-> Null], id |-> StampedProp(2)]

\* C19: assign(data) raises no error whatever declared fields data lacks;
\* a declared field data lacks keeps the value it had, a declared field
\* data has takes data's value; a field never given is null.
C19_MissingFieldsKeepTheirValue ==
  /\ [][repCall'.op = "assign"
          => /\ repErr' = None
             /\ \A p \in CoreProperties :
                  reporter'[p] = IF p \in DOMAIN repCall'.data
                                   THEN repCall'.data[p]
                                   ELSE reporter[p]]_vars
  /\ [](repCall.op = "new"
          => \A p \in CoreProperties : p \notin DOMAIN repCall.data => reporter[p] = Null)

\* assign({x: 5}) on an instance whose y was 7: y is still 7
C19_Witness ==
  /\ repCall.op = "assign" /\ repCall.data = [x |-> 5] /\ repErr = None
  /\ reporter = [x |-> 5, y |-> 7]

\* C20: initialize(defaults, data) returns an object with exactly the keys
\* of defaults, each with data's value when data has the key and the
\* default otherwise, and with no key that only data has; defaults and
\* data are as they were.
C20_InitializeKeepsDeclaredKeys ==
  /\ DOMAIN initResult = DOMAIN initCall.defaults
  /\ \A k \in DOMAIN initCall.defaults :
       /\ k \in DOMAIN initCall.data => initResult[k] = initCall.data[k]
       /\ k \notin DOMAIN initCall.data => initResult[k] = initCall.defaults[k]
  /\ \A k \in DOMAIN initCall.data \ DOMAIN initCall.defaults : k \notin DOMAIN initResult
  /\ initAfter = initCall

\* initialize({x: null, y: 7}, {x: 5, evil: 7}) has returned {x: 5, y: 7}
C20_Witness ==
  /\ initCall = [defaults |-> [x |-> Null, y |-> 7], data |-> [x |-> 5, evil |-> 7]]
  /\ initResult = [x |-> 5, y |-> 7]

(***************************************************************************)
(* More properties of the publication scheduler (Spec).                    *)
(***************************************************************************)
\* C29: an entity's scheduled flag is set exactly when one deferred
\* emission of it is pending (given to setImmediate and not yet called),
\* and no entity ever has two pending.
C29_FlagIffOnePending ==
  \A e \in Entities :
    /\ scheduled[e] <=> Pending(e) = 1
    /\ Pending(e) <= 1

\* publish() was called twice on an entity in one handler: its flag is set
\* and one emission of it is pending
C29_Witness ==
  \E e \in Entities :
    /\ published[e] = 2 /\ scheduled[e] /\ Pending(e) = 1
    /\ last = Op("publish", e)

\* C30: a publish() on entity a leaves every other entity's flag and
\* pending emission as and where they were (none is put behind a's); and
\* the emission that runs is always the one of the entity whose first
\* publish() is the oldest among those not yet emitted.
C30_PerEntityFifo ==
  /\ [][\A a \in Entities :
          (last'.op = "publish" /\ last'.ent = a)
            => /\ checkBatch' = checkBatch
               /\ \A b \in Entities \ {a} :
                    /\ scheduled'[b] = scheduled[b]
                    /\ Count(immediateQueue', b) = Count(immediateQueue, b)
                    /\ \A i \in DOMAIN immediateQueue :
                         immediateQueue[i] = b =>
                           (i \in DOMAIN immediateQueue' /\ immediateQueue'[i] = b)]_vars
  /\ [][\A e \in Entities :
          (last'.op = "emit" /\ last'.ent = e)
            => (pubOrder # <<>> /\ Head(pubOrder) = e)]_vars

\* one handler called publish() on "item" and then on "bare": the emission
\* of "item" has run and the one of "bare" is the next
C30_Witness ==
  /\ events = 1 /\ published = [item |-> 1, bare |-> 1]
  /\ last = Op("emitted", "item") /\ emits = [item |-> 1, bare |-> 0]
  /\ checkBatch = <<"bare">> /\ pubOrder = <<"bare">>

(***************************************************************************)
(* Properties of the GestureControllers (SpecGesture).                     *)
(***************************************************************************)
\* C27: every callback a region fires makes exactly one call to the
\* message handler, with the controller's own group and the data as fired:
\* handle('drag') for pan, handle('click') for tap, handle('scale') for
\* pinch, handle('rotate') for rotate, handle('swipe') for swipe, and
\* track(data, group), not handle, for track.
C27_OneHandlerCallPerGesture ==
  [][fires' = fires + 1
      => /\ handlerCalls' = handlerCalls + 1
         /\ handlerCall'.group = [group |-> arbitrating]
         /\ handlerCall'.data = fired'.data
         /\ handlerCall'.fn = IF fired'.gesture = "track" THEN "track" ELSE "handle"
         /\ handlerCall'.kind =
              [pan |-> "drag", tap |-> "click", pinch |-> "scale", rotate |-> "rotate",
               swipe |-> "swipe", track |-> None][fired'.gesture]]_vars

\* the region of A has fired tap with data1: handle('click', group of A, data1)
C27_Witness ==
  /\ fired = [region |-> "A", gesture |-> "tap", data |-> "data1"]
  /\ handlerCall = [fn |-> "handle", kind |-> "click", group |-> [group |-> "A"],
                     data |-> "data1"]
  /\ handlerCalls = 1

\* C28: process(event) on the controller of a connection appends the event
\* once to that controller's own region, leaves every other region alone
\* and calls no handler itself; a region holds only events of its own
\* connection; and the message handler is called only when a region that
\* was given an event fires, with the group of that region's controller.
C28_RoutingIsolation ==
  /\ [](\A r \in Connections : \A i \in DOMAIN regionEvents[r] :
          regionEvents[r][i].conn = r)
  /\ [][\A c \in Connections :
          (arbitrating = None /\ arbitrating' = c)
            => /\ Len(regionEvents'[c]) = Len(regionEvents[c]) + 1
               /\ regionEvents'[c][Len(regionEvents'[c])].conn = c
               /\ \A b \in Connections \ {c} : regionEvents'[b] = regionEvents[b]
               /\ handlerCalls' = 0 /\ handlerCall' = handlerCall]_vars
  /\ [][handlerCalls' > handlerCalls
          => /\ fired'.region = arbitrating
             /\ regionEvents[fired'.region] # <<>>
             /\ handlerCall'.group = [group |-> fired'.region]]_vars

\* both connections have sent an event, each region has its own, and the
\* region of B has fired: the handler was called with the group of B
C28_Witness ==
  /\ regionEvents = [A |-> <<RawEvent("A", "pointerdown")>>,
                     B |-> <<RawEvent("B", "pointerup")>>]
  /\ fired.region = "B" /\ handlerCall.group = [group |-> "B"]
  /\ arbitrating = "B"

(***************************************************************************)
(* Properties of the WorkSpace (SpecWorkSpace).                            *)
(***************************************************************************)
\* C23: each of the options debug, color, bounds and clientLimit of the
\* workspace's settings has the value the user supplied when the settings
\* given to the constructor name that option, and otherwise its default
\* (false, '#aaaaaa', {x: 10000, y: 10000}, 10), whatever other options are
\* supplied; with no settings all four are at their defaults.
C23_SettingsDefaultIndependently ==
  LET documented == [debug |-> FALSE, color |-> "#aaaaaa",
                     bounds |-> [x |-> 10000, y |-> 10000], clientLimit |-> 10]
  IN  /\ DOMAIN settings = {"debug", "color", "bounds", "clientLimit"}
      /\ \A k \in DOMAIN settings :
            settings[k] = IF k \in DOMAIN userSettings THEN userSettings[k]
                                                       ELSE documented[k]
      /\ (DOMAIN userSettings = {} => settings = documented)

\* new WorkSpace(8080, {clientLimit: 7}): clientLimit is 7, the rest default
C23_Witness ==
  /\ DOMAIN userSettings = {"clientLimit"}
  /\ userSettings.clientLimit = 7
  /\ settings = [debug |-> FALSE, color |-> "#aaaaaa",
                 bounds |-> [x |-> 10000, y |-> 10000], clientLimit |-> 7]

\* C21: the live Viewers never number more than the workspace's
\* clientLimit; a connection attempted while clientLimit Viewers are live is
\* refused with a capacity error, and it leaves the Viewers and the
\* controllers as they were: nothing is constructed for it.
C21_AdmissionIsBounded ==
  /\ [](Cardinality(viewers) <= settings.clientLimit)
  /\ [][(wsCall'.op = "connect" /\ Cardinality(viewers) >= settings.clientLimit)
          => /\ wsErr' = "CapacityExceeded"
             /\ viewers' = viewers
             /\ controllers' = controllers]_vars

\* clientLimit is 2, two Viewers are live, the third socket has been refused
C21_Witness ==
  /\ settings.clientLimit = 2
  /\ viewers = {"s1", "s2"}
  /\ controllers = {"s1", "s2"}
  /\ wsCall = WsCall("connect", "s3")
  /\ wsErr = "CapacityExceeded"

C24_ContainsPointClosedIntervals ==
  objCall.op = "containsPoint" =>
    LET px == objCall.args[1]
        py == objCall.args[2]
        x0 == wsObject.x
        y0 == wsObject.y
        x1 == wsObject.x + wsObject.width
        y1 == wsObject.y + wsObject.height
    IN  /\ objRet <=> (x0 <= px /\ px <= x1 /\ y0 <= py /\ py <= y1)
        /\ (px \in {x0, x1} /\ py \in {y0, y1} => objRet)
        /\ (px \in {x0 - 1, x1 + 1} \/ py \in {y0 - 1, y1 + 1} => ~objRet)

\* the item at (50, 50) of size 100 x 100 contains its corner (150, 50)
C24_Witness ==
  /\ wsObject.x = 50 /\ wsObject.y = 50 /\ wsObject.width = 100 /\ wsObject.height = 100
  /\ objCall = ObjCall("containsPoint", <<150, 50>>)
  /\ objRet

\* C25: move(a, b) followed by move(c, d) leaves an object that was at
\* (x, y) at (x + a + c, y + b + d), for positive and negative deltas; a
\* move() call with an argument left out changes nothing; and no move()
\* call changes a field other than x and y.
C25_MoveComposes ==
  [][objCall'.op = "move" /\ moves' = moves + 1
      => /\ (Len(objCall'.args) < 2 => wsObject' = wsObject)
         /\ DOMAIN wsObject' = DOMAIN wsObject
         /\ \A k \in DOMAIN wsObject \ {"x", "y"} : wsObject'[k] = wsObject[k]
         /\ (Len(objCall'.args) = 2
               => /\ wsObject'.x = wsObject.x + objCall'.args[1]
                  /\ wsObject'.y = wsObject.y + objCall'.args[2])
         /\ (objCall.op = "move" /\ Len(objCall.args) = 2 /\ Len(objCall'.args) = 2
               => /\ wsObject'.x = objBefore.x + objCall.args[1] + objCall'.args[1]
                  /\ wsObject'.y = objBefore.y + objCall.args[2] + objCall'.args[2])]_vars

\* move(10, 20) then move(-5, -8) on a new object: it is at (5, 12)
C25_Witness ==
  /\ objCall = ObjCall("move", <<-5, -8>>)
  /\ objBefore.x = 10 /\ objBefore.y = 20
  /\ wsObject.x = 5 /\ wsObject.y = 12
  /\ moves = 2

\* C26: moveToXY(x, y) leaves the object at exactly (x, y), inside the
\* bounds of the workspace or not; a call with a coordinate left out
\* changes nothing; and no moveToXY() call changes a field other than x
\* and y.
C26_MoveToXYAssigns ==
  [][objCall'.op = "moveToXY" /\ moves' = moves + 1
      => /\ (Len(objCall'.args) < 2 => wsObject' = wsObject)
         /\ DOMAIN wsObject' = DOMAIN wsObject
         /\ \A k \in DOMAIN wsObject \ {"x", "y"} : wsObject'[k] = wsObject[k]
         /\ (Len(objCall'.args) = 2
               => /\ wsObject'.x = objCall'.args[1]
                  /\ wsObject'.y = objCall'.args[2])]_vars

\* moveToXY(-50, -1000): the object is outside the workspace, as asked
C26_Witness ==
  /\ objCall = ObjCall("moveToXY", <<-50, -1000>>)
  /\ wsObject.x = -50 /\ wsObject.y = -1000
  /\ wsObject.width = 128

(***************************************************************************)
(* assign() and the id of a reporter (SpecReporter).                       *)
(***************************************************************************)
\* C32: assign(data) leaves the instance's own id as it was, absent or
\* stamped, whether or not data carries an id key, and id is no declared
\* field; the report() taken right after an assign() carries that same
\* id: none for an instance without one, the stamped value otherwise.
C32_AssignLeavesIdAlone ==
  /\ []("id" \notin DOMAIN reporter)
  /\ [][repCall'.op = "assign" => reporterId' = reporterId]_vars
  /\ [][(repCall.op = "assign" /\ repCall'.op = "report")
          => /\ reporterId' = reporterId
             /\ repRet'.id.has = reporterId.has
             /\ (reporterId.has => repRet'.id.value = reporterId.value)]_vars

\* an instance stamped 1 has been given assign({x: 7, id: 2}): x is 7 and
\* its id is still the stamped 1
C32_Witness ==
  /\ repCall.op = "assign"
  /\ DOMAIN repCall.data = {"x", "id"}
  /\ repCall.data["id"] = 2
  /\ reporter["x"] = 7
  /\ reporterId = StampedProp(1)

====
